---------------------------- MODULE Spec2Model ----------------------------
(***************************************************************************)
(* A model of json_go: the UTF-8 decoder (utf8.go) and the recursive-descent*)
(* JSON parser (parser.go).                                                 *)
(*                                                                          *)
(* Both are pure functions of their input, so each is an operator computed  *)
(* the way the Go code computes it, and each specification below draws an   *)
(* input in Init and applies the operations to it in its actions.           *)
(*                                                                          *)
(* Conventions.  A []rune or []byte is a sequence of integers.  Positions   *)
(* are Go's 0-based indexes: At(s, i) is s[i].  An error is a record        *)
(* [pos, msg, args]; msg is the fixed part of the Go message and args the   *)
(* values its format verbs print.                                           *)
(***************************************************************************)
EXTENDS Integers, Sequences, FiniteSets, TLC

VARIABLES
    input,   \* the []rune (parser) or []byte (decoder) the operation reads
    codes,   \* the code points that were encoded into input (round trip)
    cur,     \* the start position handed to the operation
    arg,     \* its further argument: Consume's literal, the iteration orders
    op,      \* the operation applied last ("none" before any)
    res      \* what it returned

vars == <<input, codes, cur, arg, op, res>>

----------------------------------------------------------------------------
(* Bounds of the model                                                      *)

MaxCodes == 3      \* code points per round-trip input
MaxBytes == 4      \* bytes per decoder input
MaxPieces == 3     \* pieces per token-level input
MaxNumLen == 4     \* code points per number input
MaxPad == 1        \* spaces before a generated string literal
MaxToks == 3       \* lexical chunks per parser input
MaxParts == 2      \* parts per input of the progress specification
MaxMembers == 3    \* members per generated object text

----------------------------------------------------------------------------
(* Helpers                                                                  *)

At(s, i) == s[i + 1]

Range(s) == {s[k] : k \in 1..Len(s)}

\* All sequences over S of length at most n.
RECURSIVE SeqsUpTo(_, _)
SeqsUpTo(S, n) ==
    IF n = 0 THEN {<<>>}
    ELSE LET shorter == SeqsUpTo(S, n - 1)
         IN  shorter \cup {Append(s, e) : s \in {t \in shorter : Len(t) = n - 1}, e \in S}

\* All concatenations of at most n chunks of S.
RECURSIVE ConcatsUpTo(_, _)
ConcatsUpTo(S, n) ==
    IF n = 0 THEN {<<>>}
    ELSE LET shorter == ConcatsUpTo(S, n - 1)
         IN  shorter \cup {s \o e : s \in shorter, e \in S}

RECURSIVE Flatten(_)
Flatten(ss) == IF ss = <<>> THEN <<>> ELSE Head(ss) \o Flatten(Tail(ss))

NoErr == [pos |-> -1, msg |-> "", args |-> <<>>]
Err(pos, msg, args) == [pos |-> pos, msg |-> msg, args |-> args]

NoRes == [ok |-> FALSE, none |-> TRUE]

\* The one element of a singleton set.  An intermediate result r of the Go
\* code that is read more than once is bound as Only({body : r \in {e}}),
\* which evaluates e once.
Only(S) == CHOOSE r \in S : TRUE

----------------------------------------------------------------------------
(* utf8.go                                                                  *)

RuneMax == 1114111   \* 0x10ffff

\* Leading with the bound of the two-byte case off by one (<= 0xe0).
LeadingMutBoundary(leading) ==
    CASE leading < 128  -> [n |-> 1, payload |-> leading, msg |-> ""]
      [] leading < 192  -> [n |-> 0, payload |-> 0, msg |-> "unexpected leading char"]
      [] leading <= 224 -> [n |-> 2, payload |-> leading % 32, msg |-> ""]
      [] leading < 240  -> [n |-> 3, payload |-> leading % 16, msg |-> ""]
      [] leading < 248  -> [n |-> 4, payload |-> leading % 8, msg |-> ""]
      [] OTHER          -> [n |-> 0, payload |-> 0, msg |-> "bad leading char"]

\* ReadCode's switch on the leading byte: n is next - cur, payload is
\* leading & mask, msg is the error's message ("" when there is none).
Leading(leading) ==
    CASE leading < 128 -> [n |-> 1, payload |-> leading, msg |-> ""]         \* & 0xff
      [] leading < 192 -> [n |-> 0, payload |-> 0, msg |-> "unexpected leading char"]
      [] leading < 224 -> [n |-> 2, payload |-> leading % 32, msg |-> ""]    \* & 0x1f
      [] leading < 240 -> [n |-> 3, payload |-> leading % 16, msg |-> ""]    \* & 0x0f
      [] leading < 248 -> [n |-> 4, payload |-> leading % 8, msg |-> ""]     \* & 0x07
      [] OTHER         -> [n |-> 0, payload |-> 0, msg |-> "bad leading char"]

\* The loop of ReadCode: code <<= 6; code |= buf[cur+1+i] & 0x3f.  The low six
\* bits are zero after the shift, so the OR is an addition; at most 21 bits
\* are ever set, so the int32 never overflows.
RECURSIVE Fold(_, _, _, _, _)
Fold(buf, c, code, i, numFollowing) ==
    IF i >= numFollowing THEN code
    ELSE Fold(buf, c, code * 64 + (At(buf, c + 1 + i) % 64), i + 1, numFollowing)

DecodingError(pos, char, msg, args) ==
    [ok |-> FALSE, code |-> 0, next |-> 0, char |-> char, err |-> Err(pos, msg, args)]

\* ReadCode with the "buf not enough" error placed at the end of buf.
ReadCodeMutPos(buf, c) ==
    IF Len(buf) - c <= 0 THEN DecodingError(c, 0, "no enough data", <<>>)
    ELSE Only({
        IF l.msg # "" THEN DecodingError(c, At(buf, c), l.msg, <<>>)
        ELSE IF l.n > Len(buf) - c
        THEN [DecodingError(Len(buf), At(buf, c), "buf not enough", <<l.n, Len(buf) - c>>)
                 EXCEPT !.next = c + l.n]
        ELSE [ok |-> TRUE, code |-> Fold(buf, c, l.payload, 0, l.n - 1),
              next |-> c + l.n, char |-> 0, err |-> NoErr]
        : l \in {Leading(At(buf, c))} })

\* ReadCode(buf, cur): (code, next, err); char is the DecodingError's byte.
ReadCode(buf, c) ==
    IF Len(buf) - c <= 0 THEN DecodingError(c, 0, "no enough data", <<>>)
    ELSE Only({
        IF l.msg # "" THEN DecodingError(c, At(buf, c), l.msg, <<>>)
        ELSE IF l.n > Len(buf) - c       \* numFollowing+1 > len(buf)-cur
        THEN [DecodingError(c, At(buf, c), "buf not enough", <<l.n, Len(buf) - c>>)
                 EXCEPT !.next = c + l.n]
        ELSE [ok |-> TRUE, code |-> Fold(buf, c, l.payload, 0, l.n - 1),
              next |-> c + l.n, char |-> 0, err |-> NoErr]
        : l \in {Leading(At(buf, c))} })

\* The loop of Decode, with the cursor at c.
RECURSIVE DecodeFrom(_, _, _)
DecodeFrom(buf, c, output) ==
    IF c >= Len(buf)
    THEN [ok |-> TRUE, output |-> output, char |-> 0, err |-> NoErr]
    ELSE Only({
        IF ~r.ok THEN [ok |-> FALSE, output |-> output, char |-> r.char, err |-> r.err]
        ELSE DecodeFrom(buf, r.next, Append(output, r.code))
        : r \in {ReadCode(buf, c)} })

\* Decode(input): (output, err)
Decode(buf) == DecodeFrom(buf, 0, <<>>)

----------------------------------------------------------------------------
(* parser.go: code points and values                                        *)

\* The code point of a printable ASCII character.
Rune(c) ==
    CASE c = " " -> 32  [] c = "!" -> 33  [] c = "+" -> 43  [] c = "," -> 44
      [] c = "-" -> 45  [] c = "." -> 46  [] c = "/" -> 47  [] c = "0" -> 48
      [] c = "1" -> 49  [] c = "2" -> 50  [] c = "5" -> 53  [] c = "7" -> 55
      [] c = "8" -> 56  [] c = "9" -> 57  [] c = ":" -> 58  [] c = "A" -> 65
      [] c = "D" -> 68  [] c = "E" -> 69  [] c = "F" -> 70  [] c = "G" -> 71
      [] c = "[" -> 91  [] c = "]" -> 93  [] c = "a" -> 97  [] c = "b" -> 98
      [] c = "c" -> 99  [] c = "d" -> 100 [] c = "e" -> 101 [] c = "f" -> 102
      [] c = "g" -> 103 [] c = "j" -> 106 [] c = "k" -> 107 [] c = "l" -> 108
      [] c = "n" -> 110 [] c = "r" -> 114 [] c = "s" -> 115 [] c = "t" -> 116
      [] c = "u" -> 117 [] c = "x" -> 120 [] c = "{" -> 123 [] c = "}" -> 125
      [] c = "quote" -> 34 [] c = "backslash" -> 92
      [] c = "tab" -> 9 [] c = "lf" -> 10 [] c = "cr" -> 13
      [] c = "backspace" -> 8 [] c = "formfeed" -> 12

\* []rune(tok) for the literals the parser consumes.
Tok(name) ==
    CASE name = "true"  -> <<Rune("t"), Rune("r"), Rune("u"), Rune("e")>>
      [] name = "false" -> <<Rune("f"), Rune("a"), Rune("l"), Rune("s"), Rune("e")>>
      [] name = "null"  -> <<Rune("n"), Rune("u"), Rune("l"), Rune("l")>>
      [] OTHER          -> <<Rune(name)>>

\* s as a string literal of the text.
Quoted(s) == <<34>> \o s \o <<34>>

\* JsonValue: nil, bool, int64, float64, string, JsonArray, JsonMap, and the
\* JsonKeyValue an object's items are parsed into.
Nil == [kind |-> "nil"]
BoolVal(b) == [kind |-> "bool", b |-> b]
IntVal(v) == [kind |-> "int", v |-> v]
StrVal(s) == [kind |-> "string", s |-> s]
ArrVal(items) == [kind |-> "array", items |-> items]
MapVal(m) == [kind |-> "map", m |-> m]
KVVal(key, value) == [kind |-> "kv", key |-> key, value |-> value]

\* The float64 ParseNum computes is float64(whole) + sum frac[k]/10^k, times
\* Pow10(expnum) when hasexp, negated when neg.  The model keeps the operands
\* of that computation, which determine the float.
FloatVal(neg, whole, frac, hasexp, expnum) ==
    [kind |-> "float", neg |-> neg, whole |-> whole, frac |-> frac,
     hasexp |-> hasexp, expnum |-> expnum]

\* What a production returns: (value, next, err), and two ghost sets that
\* record the run: calls holds <<caller, its cur, callee, its cur>> for every
\* nested call made, iters holds <<loop, cursor before, cursor after>> for
\* every completed loop iteration.
Ret(ok, value, next, err, calls, iters) ==
    [ok |-> ok, value |-> value, next |-> next, err |-> err,
     calls |-> calls, iters |-> iters]

Fail(value, next, err, calls, iters) == Ret(FALSE, value, next, err, calls, iters)
Done(value, next, calls, iters) == Ret(TRUE, value, next, NoErr, calls, iters)

----------------------------------------------------------------------------
(* parser.go: whitespace and tokens                                         *)

\* case ' ', '\t', '\n', '\r'
IsSpace(ch) == ch \in {32, 9, 10, 13}

RECURSIVE SkipSpace(_, _)
SkipSpace(in, i) ==
    IF i < Len(in)
    THEN IF IsSpace(At(in, i)) THEN SkipSpace(in, i + 1) ELSE i
    ELSE Len(in)

\* The loop of Consume: the first i with input[next+i] # tok[i], or Len(tok)
\* when there is none.
RECURSIVE Mismatch(_, _, _, _)
Mismatch(in, next, t, i) ==
    IF i >= Len(t) THEN Len(t)
    ELSE IF At(in, next + i) # At(t, i) THEN i
    ELSE Mismatch(in, next, t, i + 1)

\* Consume from next, the position SkipSpace returned.
\* ConsumeAt with next moved to the mismatch on failure.
ConsumeAtMutNext(in, next, t) ==
    IF Len(in) - next < Len(t)
    THEN [ok |-> FALSE, next |-> next, err |-> Err(next, "expect", t)]
    ELSE Only({
        IF i < Len(t)
        THEN [ok |-> FALSE, next |-> next + i, err |-> Err(next + i, "expect", t)]
        ELSE [ok |-> TRUE, next |-> next + Len(t), err |-> NoErr]
        : i \in {Mismatch(in, next, t, 0)} })

\* ConsumeAt without the length check: the end of input is a mismatch.
ConsumeAtMutFirst(in, next, t) ==
    Only({
        IF i < Len(t)
        THEN [ok |-> FALSE, next |-> next, err |-> Err(next + i, "expect", t)]
        ELSE [ok |-> TRUE, next |-> next + Len(t), err |-> NoErr]
        : i \in {Mismatch(in \o [k \in 1..Len(t) |-> -1], next, t, 0)} })

ConsumeAt(in, next, t) ==
    IF Len(in) - next < Len(t)
    THEN [ok |-> FALSE, next |-> next, err |-> Err(next, "expect", t)]
    ELSE Only({
        IF i < Len(t)
        THEN [ok |-> FALSE, next |-> next, err |-> Err(next + i, "expect", t)]
        ELSE [ok |-> TRUE, next |-> next + Len(t), err |-> NoErr]
        : i \in {Mismatch(in, next, t, 0)} })

\* Consume(input, cur, tok): (next, err).  On failure next stays at the
\* position SkipSpace returned.
Consume(in, c, t) == ConsumeAt(in, SkipSpace(in, c), t)

----------------------------------------------------------------------------
(* parser.go: strings                                                       *)

IsNoEscape(ch) ==
    (35 <= ch /\ ch <= 91) \/ (93 <= ch /\ ch <= RuneMax) \/ ch = 32 \/ ch = 33

\* Hex2Num(input, cur): (value, err)
Hex2Num(in, c) ==
    Only({
        CASE 48 <= ch /\ ch <= 57  -> [ok |-> TRUE, value |-> ch - 48, err |-> NoErr]       \* '0'..'9'
          [] 97 <= ch /\ ch <= 102 -> [ok |-> TRUE, value |-> ch - 97 + 10, err |-> NoErr]  \* 'a'..'f'
          [] 65 <= ch /\ ch <= 70  -> [ok |-> TRUE, value |-> ch - 65 + 10, err |-> NoErr]  \* 'A'..'F'
          [] OTHER -> [ok |-> FALSE, value |-> 0, err |-> Err(c, "expect hex, got", <<ch>>)]
        : ch \in {At(in, c)} })

\* The loop of ScanHex: value <<= 4; value |= d.
RECURSIVE ScanHexLoop(_, _, _, _)
ScanHexLoop(in, c, i, value) ==
    IF i >= 4 THEN [ok |-> TRUE, value |-> value, err |-> NoErr]
    ELSE Only({
        IF ~d.ok THEN [ok |-> FALSE, value |-> value, err |-> d.err]
        ELSE ScanHexLoop(in, c, i + 1, value * 16 + d.value)
        : d \in {Hex2Num(in, c + i)} })

\* ScanHex(input, cur): (value, err)
ScanHex(in, c) ==
    IF c + 4 > Len(in)
    THEN [ok |-> FALSE, value |-> 0, err |-> Err(c, "expect 4 hex digit", <<>>)]
    ELSE ScanHexLoop(in, c, 0, 0)

Escaped(value, next) == [ok |-> TRUE, value |-> value, next |-> next, err |-> NoErr]

\* ParseEscape(input, cur): (value, next, err)
ParseEscape(in, c) ==
    IF c >= Len(in)
    THEN [ok |-> FALSE, value |-> 0, next |-> c,
          err |-> Err(c, "string not terminated, expect escape", <<>>)]
    ELSE Only({
        CASE ch \in {34, 92, 47} -> Escaped(ch, c + 1)     \* '"', '\\', '/'
          [] ch = 98  -> Escaped(8, c + 1)                 \* 'b' -> '\b'
          [] ch = 102 -> Escaped(12, c + 1)                \* 'f' -> '\f'
          [] ch = 110 -> Escaped(10, c + 1)                \* 'n' -> '\n'
          [] ch = 114 -> Escaped(13, c + 1)                \* 'r' -> '\r'
          [] ch = 116 -> Escaped(9, c + 1)                 \* 't' -> '\t'
          [] ch = 117 ->                                   \* 'u'
               Only({ IF ~h.ok
                      THEN [ok |-> FALSE, value |-> h.value, next |-> c + 1, err |-> h.err]
                      ELSE Escaped(h.value, c + 5)
                      : h \in {ScanHex(in, c + 1)} })
          [] OTHER -> [ok |-> FALSE, value |-> 0, next |-> c,
                       err |-> Err(c, "bad escape char", <<ch>>)]
        : ch \in {At(in, c)} })

\* string(val) of a []rune: Go encodes each rune as UTF-8 and encodes a rune
\* that is no valid code point (a surrogate half 0xD800..0xDFFF, a value
\* outside 0..0x10FFFF) as U+FFFD.  The string is given by its code points.
GoString(val) ==
    [k \in 1..Len(val) |->
        IF (0 <= val[k] /\ val[k] < 55296) \/ (57343 < val[k] /\ val[k] <= RuneMax)
        THEN val[k] ELSE 65533]

\* The loop of ParseString, with the cursor at next.
RECURSIVE StringLoop(_, _, _, _)
StringLoop(in, next, val, iters) ==
    IF next >= Len(in)
    THEN Fail(StrVal(<<>>), next, Err(next, "string not terminated", <<>>), {}, iters)
    ELSE Only({
        CASE ch = 34 ->                                    \* '"': terminated
               Done(StrVal(GoString(val)), next + 1, {}, iters)
          [] ch = 92 ->                                    \* '\\'
               Only({ IF ~e.ok THEN Fail(StrVal(<<>>), e.next, e.err, {}, iters)
                      ELSE StringLoop(in, e.next, Append(val, e.value),
                                      iters \cup {<<"ParseString", next, e.next>>})
                      : e \in {ParseEscape(in, next + 1)} })
          [] IsNoEscape(ch) ->
               StringLoop(in, next + 1, Append(val, ch),
                          iters \cup {<<"ParseString", next, next + 1>>})
          [] OTHER ->
               Fail(StrVal(<<>>), next, Err(next, "unescaped char", <<ch>>), {}, iters)
        : ch \in {At(in, next)} })

\* ParseString(input, cur): (value, next, err)
ParseString(in, c) ==
    Only({ IF ~q.ok THEN Fail(StrVal(<<>>), q.next, q.err, {}, {})
           ELSE StringLoop(in, q.next, <<>>, {})
           : q \in {Consume(in, c, <<34>>)} })

----------------------------------------------------------------------------
(* parser.go: numbers and literals                                          *)

IsDigit(ch) == 48 <= ch /\ ch <= 57      \* '0' <= ch && ch <= '9'

\* The position after the maximal run of digits from next.
RECURSIVE DigitsEnd(_, _)
DigitsEnd(in, next) ==
    IF next < Len(in) /\ IsDigit(At(in, next)) THEN DigitsEnd(in, next + 1) ELSE next

\* value *= 10; value += int64(input[next] - '0'), over input[from:to].  The
\* inputs of the model are far too short for the int64 to wrap.
RECURSIVE DigitsValue(_, _, _, _)
DigitsValue(in, from, to, value) ==
    IF from >= to THEN value
    ELSE DigitsValue(in, from + 1, to, value * 10 + (At(in, from) - 48))

\* ScanInt(input, cur): (value, next, err); next is 0 on failure.
ScanInt(in, c) ==
    IF ~(c < Len(in) /\ IsDigit(At(in, c)))
    THEN [ok |-> FALSE, value |-> 0, next |-> 0, err |-> Err(c, "expect digits", <<>>)]
    ELSE Only({ [ok |-> TRUE, value |-> DigitsValue(in, c, to, 0), next |-> to, err |-> NoErr]
                : to \in {DigitsEnd(in, c)} })

\* The integer part of ParseNum, from next: (whole, next, err).
WholePart(in, next) ==
    IF At(in, next) = 48                 \* '0'
    THEN [ok |-> TRUE, value |-> 0, next |-> next + 1, err |-> NoErr]
    ELSE ScanInt(in, next)

\* The frac part of ParseNum, from next: has is whether a '.' was read, frac
\* the digits after it.
FracPart(in, next) ==
    IF next < Len(in) /\ At(in, next) = 46      \* '.'
    THEN IF ~(next + 1 < Len(in) /\ IsDigit(At(in, next + 1)))
         THEN [ok |-> FALSE, has |-> TRUE, frac |-> <<>>, next |-> next + 1,
               err |-> Err(next + 1, "expect digits", <<>>)]
         ELSE Only({ [ok |-> TRUE, has |-> TRUE,
                      frac |-> [k \in 1..(to - next - 1) |-> At(in, next + k) - 48],
                      next |-> to, err |-> NoErr]
                     : to \in {DigitsEnd(in, next + 1)} })
    ELSE [ok |-> TRUE, has |-> FALSE, frac |-> <<>>, next |-> next, err |-> NoErr]

\* The range over map[string]bool{"+": false, "-": true} of ParseNum, visiting
\* the keys in the order signs: (expneg, next).
RECURSIVE SignLoop(_, _, _)
SignLoop(in, next, signs) ==
    IF signs = <<>> THEN [expneg |-> FALSE, next |-> next]
    ELSE Only({ IF r.ok THEN [expneg |-> (Head(signs) = "-"), next |-> r.next]
                ELSE SignLoop(in, r.next, Tail(signs))
                : r \in {Consume(in, next, Tok(Head(signs)))} })

\* The exp part of ParseNum, from next: has is whether 'e' or 'E' was read.
ExpPart(in, next, signs) ==
    IF next < Len(in) /\ At(in, next) \in {101, 69}     \* 'e', 'E'
    THEN Only({
            Only({ [ok |-> x.ok, has |-> TRUE,
                    expnum |-> IF sg.expneg THEN -x.value ELSE x.value,
                    next |-> x.next, err |-> x.err]
                   : x \in {ScanInt(in, sg.next)} })
            : sg \in {SignLoop(in, next + 1, signs)} })
    ELSE [ok |-> TRUE, has |-> FALSE, expnum |-> 0, next |-> next, err |-> NoErr]

\* IsFloat with the exponent part forgetting to set isfloat.
IsFloatMutFracOnly(hasfrac, hasexp) == hasfrac

\* isfloat of ParseNum: set by the frac part and by the exp part.
IsFloat(hasfrac, hasexp) == hasfrac \/ hasexp

\* The value ParseNum builds at its end.
NumValue(neg, whole, f, x) ==
    IF ~IsFloat(f.has, x.has)
    THEN IntVal(IF neg THEN -whole ELSE whole)
    ELSE FloatVal(neg, whole, f.frac, x.has, x.expnum)

\* ParseNum(input, cur): (value, next, err)
ParseNum(in, c, ord) ==
    Only({
      IF m.next >= Len(in)
      THEN Fail(Nil, m.next, Err(m.next, "expects digits, got EOS", <<>>), {}, {})
      ELSE Only({
        IF ~w.ok THEN Fail(Nil, w.next, w.err, {}, {})
        ELSE Only({
          IF ~f.ok THEN Fail(Nil, f.next, f.err, {}, {})
          ELSE Only({
            IF ~x.ok THEN Fail(Nil, x.next, x.err, {}, {})
            ELSE Done(NumValue(m.ok, w.value, f, x), x.next, {}, {})
            : x \in {ExpPart(in, f.next, ord.signs)} })
          : f \in {FracPart(in, w.next)} })
        : w \in {WholePart(in, m.next)} })
      : m \in {Consume(in, c, Tok("-"))} })

LitValue(name) ==
    CASE name = "true" -> BoolVal(TRUE)
      [] name = "false" -> BoolVal(FALSE)
      [] name = "null" -> Nil

\* ParseBoolNull's loop returning cur, not Consume's next, on a match.
BoolNullLoopMutNoAdvance(in, c, lits, next) ==
    IF \E k \in 1..Len(lits) : Consume(in, c, Tok(lits[k])).ok
    THEN Done(LitValue(lits[CHOOSE k \in 1..Len(lits) : Consume(in, c, Tok(lits[k])).ok]),
              c, {}, {})
    ELSE Fail(Nil, SkipSpace(in, c), Err(SkipSpace(in, c), "expect true|false|null", <<>>), {}, {})

\* The range over the literals of ParseBoolNull, visiting the keys in the
\* order lits; next is what the last Consume returned.
RECURSIVE BoolNullLoop(_, _, _, _)
BoolNullLoop(in, c, lits, next) ==
    IF lits = <<>>
    THEN Fail(Nil, next, Err(next, "expect true|false|null", <<>>), {}, {})
    ELSE Only({ IF r.ok THEN Done(LitValue(Head(lits)), r.next, {}, {})
                ELSE BoolNullLoop(in, c, Tail(lits), r.next)
                : r \in {Consume(in, c, Tok(Head(lits)))} })

\* ParseBoolNull(input, cur): (value, next, err)
ParseBoolNull(in, c, ord) == BoolNullLoop(in, c, ord.lits, 0)

----------------------------------------------------------------------------
(* parser.go: values, arrays and objects                                    *)

\* MapPut that keeps the value a key already has.
MapPutMutFirstWins(m, k, v) ==
    [x \in (DOMAIN m) \cup {k} |-> IF x \in DOMAIN m THEN m[x] ELSE v]

\* jmap[kv.key] = kv.value
MapPut(m, k, v) ==
    [x \in (DOMAIN m) \cup {k} |-> IF x = k THEN v ELSE m[x]]

\* The loop of ParseMap over the parsed items, from item i (1-based) on.
RECURSIVE MapFold(_, _, _)
MapFold(items, i, jmap) ==
    IF i > Len(items) THEN jmap
    ELSE MapFold(items, i + 1, MapPut(jmap, items[i].key, items[i].value))

\* The arguments ParseArray and ParseMap hand to ParseArrayLike; who names
\* the caller.
Opening(who) == IF who = "ParseMap" THEN <<123>> ELSE <<91>>     \* "{", "["
Closing(who) == IF who = "ParseMap" THEN <<125>> ELSE <<93>>     \* "}", "]"
ItemParser(who) == IF who = "ParseMap" THEN "ParseKeyValue" ELSE "ParseAny"

\* The production ParseAny dispatches to on the code point ch.
Dispatch(ch) ==
    CASE ch = 91 -> "ParseArray"                      \* '['
      [] ch = 123 -> "ParseMap"                       \* '{'
      [] ch = 34 -> "ParseString"                     \* '"'
      [] IsDigit(ch) \/ ch = 45 -> "ParseNum"         \* '0'..'9', '-'
      [] ch \in {116, 102, 110} -> "ParseBoolNull"    \* 't', 'f', 'n'
      [] OTHER -> "bad char"

RECURSIVE ParseAny(_, _, _)
RECURSIVE ParseKeyValue(_, _, _)
RECURSIVE ArrayLoop(_, _, _, _, _, _, _, _)

\* What ArrayLoop does after an item: "," continues the loop, the closing
\* bracket ends it, anything else is an error.
AfterItem(in, c, who, next, arr, calls, iters, ord, itemNext) ==
    Only({
      IF comma.ok
      THEN ArrayLoop(in, c, who, comma.next, arr, calls,
                     iters \cup {<<"ParseArrayLike", next, comma.next>>}, ord)
      ELSE Only({
        IF ~close.ok
        THEN Fail(Nil, close.next, Err(close.next, "expect or ','", Closing(who)),
                  calls, iters)
        ELSE Done(ArrVal(arr), close.next, calls,
                  iters \cup {<<"ParseArrayLike", next, close.next>>})
        : close \in {Consume(in, comma.next, Closing(who))} })
      : comma \in {Consume(in, itemNext, <<44>>)} })       \* ","

\* The for loop of ParseArrayLike, with the cursor at next.
ArrayLoop(in, c, who, next, arr, calls, iters, ord) ==
    Only({
      IF ~sub.ok
      THEN Fail(Nil, sub.next, sub.err,
                calls \cup sub.calls \cup {<<who, c, ItemParser(who), next>>},
                iters \cup sub.iters)
      ELSE AfterItem(in, c, who, next, Append(arr, sub.value),
                     calls \cup sub.calls \cup {<<who, c, ItemParser(who), next>>},
                     iters \cup sub.iters, ord, sub.next)
      : sub \in {IF who = "ParseMap" THEN ParseKeyValue(in, next, ord)
                 ELSE ParseAny(in, next, ord)} })

\* ParseArrayLike(input, cur, itemParser, bracket), called by who.
ParseArrayLike(in, c, who, ord) ==
    Only({
      IF ~open.ok THEN Fail(Nil, open.next, open.err, {}, {})
      ELSE Only({
        IF empty.ok THEN Done(ArrVal(<<>>), empty.next, {}, {})
        ELSE ArrayLoop(in, c, who, empty.next, <<>>, {}, {}, ord)
        : empty \in {Consume(in, open.next, Closing(who))} })
      : open \in {Consume(in, c, Opening(who))} })

\* ParseArray(input, cur): (value, next, err)
ParseArray(in, c, ord) == ParseArrayLike(in, c, "ParseArray", ord)

\* ParseMap(input, cur): (value, next, err)
ParseMap(in, c, ord) ==
    Only({ IF r.ok THEN [r EXCEPT !.value = MapVal(MapFold(r.value.items, 1, <<>>))]
           ELSE r
           : r \in {ParseArrayLike(in, c, "ParseMap", ord)} })

\* ParseKeyValue(input, cur): (value, next, err)
ParseKeyValue(in, c, ord) ==
    Only({
      IF ~k.ok
      THEN Fail(Nil, k.next, k.err, {<<"ParseKeyValue", c, "ParseString", c>>}, k.iters)
      ELSE Only({
        IF ~colon.ok
        THEN Fail(Nil, colon.next, colon.err,
                  {<<"ParseKeyValue", c, "ParseString", c>>}, k.iters)
        ELSE Only({
          Ret(v.ok, IF v.ok THEN KVVal(k.value.s, v.value) ELSE Nil, v.next, v.err,
              v.calls \cup {<<"ParseKeyValue", c, "ParseString", c>>,
                            <<"ParseKeyValue", c, "ParseAny", colon.next>>},
              k.iters \cup v.iters)
          : v \in {ParseAny(in, colon.next, ord)} })
        : colon \in {Consume(in, k.next, <<58>>)} })        \* ":"
      : k \in {ParseString(in, c)} })

\* The production named p applied at c.
Apply(p, in, c, ord) ==
    CASE p = "ParseAny" -> ParseAny(in, c, ord)
      [] p = "ParseArray" -> ParseArray(in, c, ord)
      [] p = "ParseMap" -> ParseMap(in, c, ord)
      [] p = "ParseKeyValue" -> ParseKeyValue(in, c, ord)
      [] p = "ParseString" -> ParseString(in, c)
      [] p = "ParseNum" -> ParseNum(in, c, ord)
      [] p = "ParseBoolNull" -> ParseBoolNull(in, c, ord)

\* ParseAny(input, cur): (value, next, err)
ParseAny(in, c, ord) ==
    Only({
      IF next >= Len(in)
      THEN Fail(Nil, next, Err(next, "expect something, got EOS", <<>>), {}, {})
      ELSE Only({
        IF p = "bad char"
        THEN Fail(Nil, next, Err(next, "bad char", <<At(in, next)>>), {}, {})
        ELSE Only({ [sub EXCEPT !.calls = @ \cup {<<"ParseAny", c, p, next>>}]
                    : sub \in {Apply(p, in, next, ord)} })
        : p \in {Dispatch(At(in, next))} })
      : next \in {SkipSpace(in, c)} })

\* ParseRunes without the SkipSpace after the value.
ParseRunesMutNoSkip(in, ord) ==
    Only({
      IF ~r.ok THEN r
      ELSE IF r.next # Len(in)
           THEN Fail(r.value, r.next, Err(r.next, "not terminated", <<>>), r.calls, r.iters)
           ELSE r
      : r \in {ParseAny(in, 0, ord)} })

\* ParseRunes(input): (value, err); next is its local variable.
ParseRunes(in, ord) ==
    Only({
      IF ~r.ok THEN r
      ELSE Only({
        IF next # Len(in)
        THEN Fail(r.value, next, Err(next, "not terminated", <<>>), r.calls, r.iters)
        ELSE [r EXCEPT !.next = next]
        : next \in {SkipSpace(in, r.next)} })
      : r \in {ParseAny(in, 0, ord)} })

\* Parse(input): (value, err), with the string given by its bytes.
Parse(bytes, ord) ==
    Only({ IF ~d.ok THEN Fail(Nil, 0, d.err, {}, {})
           ELSE ParseRunes(d.output, ord)
           : d \in {Decode(bytes)} })

\* The iteration orders Go's range may pick for the two literal maps.
LitOrders ==
    {<<"true", "false", "null">>, <<"true", "null", "false">>,
     <<"false", "true", "null">>, <<"false", "null", "true">>,
     <<"null", "true", "false">>, <<"null", "false", "true">>}
SignOrders == {<<"+", "-">>, <<"-", "+">>}
Orders == [lits : LitOrders, signs : SignOrders]

----------------------------------------------------------------------------
(* Round trip: code points, encoded by a reference encoder, then decoded    *)

\* The reference UTF-8 encoder of one code point: 1 to 4 bytes by magnitude.
EncodeRune(c) ==
    CASE c < 128   -> <<c>>
      [] c < 2048  -> <<192 + (c \div 64), 128 + (c % 64)>>
      [] c < 65536 -> <<224 + (c \div 4096), 128 + ((c \div 64) % 64), 128 + (c % 64)>>
      [] OTHER     -> <<240 + (c \div 262144), 128 + ((c \div 4096) % 64),
                        128 + ((c \div 64) % 64), 128 + (c % 64)>>

Utf8Encode(cs) == Flatten([k \in 1..Len(cs) |-> EncodeRune(cs[k])])

\* The byte offset of the k-th code point (1-based) of cs in Utf8Encode(cs).
Offset(cs, k) == Len(Utf8Encode(SubSeq(cs, 1, k - 1)))

\* Code points at the ends of each encoded length, a surrogate half, U+554A.
CodePoints == {0, 65, 127, 128, 2047, 2048, 21834, 55296, 65535, 65536, RuneMax}

InitRound ==
    /\ codes \in SeqsUpTo(CodePoints, MaxCodes)
    /\ input = <<>>
    /\ cur = 0
    /\ arg = <<>>
    /\ op = "none"
    /\ res = NoRes

EncodeStep ==
    /\ op = "none"
    /\ input' = Utf8Encode(codes)
    /\ op' = "Encode"
    /\ UNCHANGED <<codes, cur, arg, res>>

RoundDecodeStep ==
    /\ op = "Encode"
    /\ res' = Decode(input)
    /\ op' = "Decode"
    /\ UNCHANGED <<input, codes, cur, arg>>

RoundReadCodeStep ==
    /\ op = "Encode"
    /\ \E k \in 1..Len(codes) :
          /\ cur' = Offset(codes, k)
          /\ res' = ReadCode(input, Offset(codes, k))
    /\ op' = "ReadCode"
    /\ UNCHANGED <<input, codes, arg>>

NextRound == EncodeStep \/ RoundDecodeStep \/ RoundReadCodeStep

SpecRound == InitRound /\ [][NextRound]_vars

\* C2: decoding the reference encoding of any sequence of code points in
\* [0, 0x10FFFF] returns no error and the original sequence, and ReadCode at
\* the offset of a code point returns it and the offset after its encoding.
C2_RoundTrip ==
    /\ op = "Decode" => res.ok /\ res.err = NoErr /\ res.output = codes
    /\ op = "ReadCode" =>
          \E k \in 1..Len(codes) :
              /\ cur = Offset(codes, k)
              /\ res.ok
              /\ res.code = codes[k]
              /\ res.next = cur + Len(EncodeRune(codes[k]))

C2_Witness ==
    /\ op = "Decode"
    /\ res.ok
    /\ Len(res.output) = 3
    /\ {21834, 55296, RuneMax} \subseteq Range(res.output)

----------------------------------------------------------------------------
(* The decoder on arbitrary bytes                                           *)

\* An ASCII byte, the ends of the continuation range, a leader of each
\* length, the last 4-byte leader pattern, and two bytes that lead nothing.
ByteVals == {65, 128, 191, 195, 229, 244, 247, 248, 255}

InitDecode ==
    /\ input \in SeqsUpTo(ByteVals, MaxBytes)
    /\ codes = <<>>
    /\ cur = 0
    /\ arg = <<>>
    /\ op = "none"
    /\ res = NoRes

ReadCodeStep ==
    /\ op = "none"
    /\ \E c \in 0..(Len(input) + 1) :
          /\ cur' = c
          /\ res' = ReadCode(input, c)
    /\ op' = "ReadCode"
    /\ UNCHANGED <<input, codes, arg>>

DecodeStep ==
    /\ op = "none"
    /\ res' = Decode(input)
    /\ op' = "Decode"
    /\ UNCHANGED <<input, codes, cur, arg>>

NextDecode == ReadCodeStep \/ DecodeStep

SpecDecode == InitDecode /\ [][NextDecode]_vars

\* The sequence length a leader byte announces (0 when it announces none).
Announced(b) ==
    IF b < 128 THEN 1 ELSE IF 192 <= b /\ b < 224 THEN 2
    ELSE IF 224 <= b /\ b < 240 THEN 3 ELSE IF 240 <= b /\ b < 248 THEN 4 ELSE 0

\* The positions Decode's scan reads at, from c: each is the next of the
\* ReadCode before it; the scan ends at the end of input or at a failure.
RECURSIVE ScanPositions(_, _)
ScanPositions(buf, c) ==
    IF c >= Len(buf) THEN {}
    ELSE IF ~ReadCode(buf, c).ok THEN {c}
    ELSE {c} \cup ScanPositions(buf, ReadCode(buf, c).next)

Min(S) == CHOOSE x \in S : \A y \in S : x <= y

\* C7: ReadCode fails exactly in the four listed cases, each with its message,
\* with the leader's offset as position and the leader (0 when no byte
\* remains) as byte; Decode fails exactly when a ReadCode of its scan fails,
\* with that first error.
C7_DecodeErrors ==
    /\ op = "ReadCode" =>
          LET remain == Len(input) - cur
              b == IF remain > 0 THEN At(input, cur) ELSE 0
              nodata == remain <= 0
              cont == remain > 0 /\ 128 <= b /\ b <= 191
              bad == remain > 0 /\ b >= 248
              short == remain > 0 /\ Announced(b) \in {2, 3, 4} /\ remain < Announced(b)
          IN  /\ ~res.ok <=> (nodata \/ cont \/ bad \/ short)
              /\ cont => res.err.msg = "unexpected leading char"
              /\ bad => res.err.msg = "bad leading char"
              /\ short => /\ res.err.msg = "buf not enough"
                          /\ res.err.args = <<Announced(b), remain>>
              /\ ~res.ok => res.err.pos = cur /\ res.char = b
    /\ op = "Decode" =>
          LET failing == {c \in ScanPositions(input, 0) : ~ReadCode(input, c).ok}
          IN  /\ ~res.ok <=> failing # {}
              /\ ~res.ok => /\ res.err = ReadCode(input, Min(failing)).err
                            /\ res.char = ReadCode(input, Min(failing)).char

C7_Witness ==
    /\ op = "ReadCode"
    /\ cur = 1
    /\ ~res.ok
    /\ res.err.msg = "buf not enough"
    /\ res.err.args = <<3, 2>>
    /\ res.err.pos = 1
    /\ res.char = 229

----------------------------------------------------------------------------
(* Consume and SkipSpace on texts made of pieces of the literals            *)

TokPieces ==
    { Tok(" "), Tok("tab"), Tok("t"), <<116, 114>>, <<116, 114, 117>>, Tok("true"),
      Tok("x"), Tok(",") }

Literals == {Tok("true"), Tok(","), Tok("-")}

InitTok ==
    /\ input \in ConcatsUpTo(TokPieces, MaxPieces)
    /\ codes = <<>>
    /\ cur = 0
    /\ arg = <<>>
    /\ op = "none"
    /\ res = NoRes

SkipSpaceStep ==
    /\ op = "none"
    /\ \E c \in 0..Len(input) :
          /\ cur' = c
          /\ res' = [ok |-> TRUE, next |-> SkipSpace(input, c)]
    /\ op' = "SkipSpace"
    /\ UNCHANGED <<input, codes, arg>>

ConsumeStep ==
    /\ op = "none"
    /\ \E c \in 0..Len(input), t \in Literals :
          /\ cur' = c
          /\ arg' = t
          /\ res' = Consume(input, c, t)
    /\ op' = "Consume"
    /\ UNCHANGED <<input, codes>>

NextTok == SkipSpaceStep \/ ConsumeStep

SpecTok == InitTok /\ [][NextTok]_vars

Whitespace == {32, 9, 10, 13}      \* space, tab, LF, CR

\* The first position at or after c that holds no whitespace code point, or
\* the end of the input.
FirstNonSpace(in, c) ==
    Min({i \in c..Len(in) : i = Len(in) \/ At(in, i) \notin Whitespace})

\* The literal t stands at position p of in.
StandsAt(in, p, t) ==
    /\ p + Len(t) <= Len(in)
    /\ \A i \in 0..(Len(t) - 1) : At(in, p + i) = At(t, i)

\* The smallest i such that p + i is at the end of in or in[p+i] # t[i].
FirstMismatch(in, p, t) ==
    Min({i \in 0..Len(t) : i < Len(t) /\ (p + i >= Len(in) \/ At(in, p + i) # At(t, i))})

\* C8 as stated: Consume skips whitespace to p, succeeds iff the literal stands
\* at p and then returns p + len(tok), and on failure reports the first
\* mismatched position, the end of input counting as a mismatch.
C8_Original ==
    op = "Consume" =>
        LET p == FirstNonSpace(input, cur)
        IN  /\ res.ok <=> StandsAt(input, p, arg)
            /\ res.ok => res.next = p + Len(arg)
            /\ ~res.ok => res.err.pos = p + FirstMismatch(input, p, arg)

\* C8 as amended: on failure Consume reports p itself when fewer than
\* len(tok) code points remain from p, and otherwise the first position
\* p + i with input[p+i] # tok[i].
C8_ConsumeAmended ==
    op = "Consume" =>
        LET p == FirstNonSpace(input, cur)
        IN  /\ res.ok <=> StandsAt(input, p, arg)
            /\ res.ok => res.next = p + Len(arg)
            /\ ~res.ok =>
                  /\ res.err.msg = "expect" /\ res.err.args = arg
                  /\ res.err.pos = IF Len(input) - p < Len(arg) THEN p
                                   ELSE p + FirstMismatch(input, p, arg)

\* A failure on a short input whose code points all match the literal's start.
C8_Witness ==
    /\ op = "Consume"
    /\ arg = Tok("true")
    /\ cur = 0
    /\ input = <<32, 116, 114, 117>>
    /\ ~res.ok
    /\ res.err.pos = 1

----------------------------------------------------------------------------
(* ParseNum on texts over the characters of numbers                         *)

NumRunes ==
    {Rune("0"), Rune("1"), Rune("-"), Rune("+"), Rune("."), Rune("e"), Rune("E"),
     Rune(" ")}

\* ParseNum reads the order of the sign map only.
NumOrders == {o \in Orders : o.lits = <<"true", "false", "null">>}

InitNum ==
    /\ input \in SeqsUpTo(NumRunes, MaxNumLen)
    /\ codes = <<>>
    /\ cur = 0
    /\ arg = <<>>
    /\ op = "none"
    /\ res = NoRes

ParseNumStep ==
    /\ op = "none"
    /\ \E c \in 0..Len(input), ord \in NumOrders :
          /\ cur' = c
          /\ arg' = ord
          /\ res' = ParseNum(input, c, ord)
    /\ op' = "ParseNum"
    /\ UNCHANGED <<input, codes>>

NextNum == ParseNumStep

SpecNum == InitNum /\ [][NextNum]_vars

\* The code points of the span [from, to) of in.
Span(in, from, to) == {At(in, i) : i \in from..(to - 1)}

\* C4: an accepted number literal is an Integer iff its span holds neither
\* '.' nor 'e' nor 'E', and a Float otherwise, whatever its sign and size.
C4_KindByForm ==
    op = "ParseNum" /\ res.ok =>
        /\ res.value.kind \in {"int", "float"}
        /\ res.value.kind = "int" <=>
              Span(input, cur, res.next) \cap {Rune("."), Rune("e"), Rune("E")} = {}

\* -0E1: a Float for its exponent alone, with a zero integer part.
C4_Witness ==
    /\ op = "ParseNum"
    /\ cur = 0
    /\ input = <<Rune("-"), Rune("0"), Rune("E"), Rune("1")>>
    /\ res.ok
    /\ res.next = 4
    /\ res.value = FloatVal(TRUE, 0, <<>>, TRUE, 1)

\* C5 as stated, for a number that starts at cur: in an accepted number every
\* '.' is followed at once by a digit, every 'e' or 'E' at once by a digit or
\* by a sign and a digit, and the consumed span holds no whitespace.
C5_AdjacentExponent ==
    op = "ParseNum" /\ res.ok /\ At(input, cur) \notin Whitespace =>
        \A i \in cur..(res.next - 1) :
            LET digitAt(j) == j < res.next /\ IsDigit(At(input, j))
            IN  /\ At(input, i) = Rune(".") => digitAt(i + 1)
                /\ At(input, i) \in {Rune("e"), Rune("E")} =>
                      \/ digitAt(i + 1)
                      \/ /\ i + 1 < res.next
                         /\ At(input, i + 1) \in {Rune("+"), Rune("-")}
                         /\ digitAt(i + 2)
                /\ At(input, i) \notin Whitespace

----------------------------------------------------------------------------
(* ParseString on a string literal that holds one \u escape                 *)

HexRunes ==
    {Rune("0"), Rune("7"), Rune("8"), Rune("9"), Rune("a"), Rune("d"), Rune("f"),
     Rune("D"), Rune("F"), Rune("g")}

Spaces(n) == [k \in 1..n |-> 32]

InitString ==
    /\ \E n \in 0..MaxPad, h \in [1..4 -> HexRunes], closed \in BOOLEAN :
          /\ input = Spaces(n) \o <<34, 92, 117>> \o h \o (IF closed THEN <<34>> ELSE <<>>)
          /\ cur = n
    /\ codes = <<>>
    /\ arg = <<>>
    /\ op = "none"
    /\ res = NoRes

ParseStringStep ==
    /\ op = "none"
    /\ \E c \in {0, cur} :
          /\ cur' = c
          /\ res' = ParseString(input, c)
    /\ op' = "ParseString"
    /\ UNCHANGED <<input, codes, arg>>

\* ParseEscape at the code point after the backslash.
ParseEscapeStep ==
    /\ op = "none"
    /\ cur' = cur + 2
    /\ res' = ParseEscape(input, cur + 2)
    /\ op' = "ParseEscape"
    /\ UNCHANGED <<input, codes, arg>>

NextString == ParseStringStep \/ ParseEscapeStep

SpecString == InitString /\ [][NextString]_vars

\* The value of a hexadecimal digit, -1 for any other code point.
HexDigit(ch) ==
    IF ch \in 48..57 THEN ch - 48
    ELSE IF ch \in 97..102 THEN ch - 87
    ELSE IF ch \in 65..70 THEN ch - 55 ELSE -1

\* The digits of the escape of the literal that starts at position q.
EscapeDigits(in, q) == [k \in 1..4 |-> HexDigit(At(in, q + 2 + k))]

EscapeValue(in, q) ==
    LET d == EscapeDigits(in, q) IN d[1] * 4096 + d[2] * 256 + d[3] * 16 + d[4]

\* in holds, from q on, exactly the literal "\uXXXX" with four hex digits.
IsEscapeLiteral(in, q) ==
    /\ Len(in) = q + 8
    /\ At(in, q + 7) = 34
    /\ \A k \in 1..4 : EscapeDigits(in, q)[k] >= 0

\* C6 as stated: parsing "\uXXXX" yields the string of the one code point
\* XXXX, surrogate halves included, and the position after the closing quote.
C6_LoneEscape ==
    op = "ParseString" /\ IsEscapeLiteral(input, FirstNonSpace(input, cur)) =>
        /\ res.ok
        /\ res.value = StrVal(<<EscapeValue(input, FirstNonSpace(input, cur))>>)
        /\ res.next = Len(input)

\* What the code does keep: ParseEscape returns XXXX itself, and ParseString
\* yields XXXX outside the surrogate range and U+FFFD inside it.
EscapeKeptOutsideSurrogates ==
    LET q == FirstNonSpace(input, 0)
        v == EscapeValue(input, q)
    IN  IsEscapeLiteral(input, q) =>
        /\ op = "ParseEscape" => res.ok /\ res.value = v /\ res.next = q + 7
        /\ op = "ParseString" =>
              /\ res.ok /\ res.next = Len(input)
              /\ res.value = StrVal(<<IF v \in 55296..57343 THEN 65533 ELSE v>>)

----------------------------------------------------------------------------
(* ParseMap on generated object texts                                       *)

\* "\uXXXX" as it is written in a key.
Escape(a, b, c, d) == <<92, 117, Rune(a), Rune(b), Rune(c), Rune(d)>>

\* Member texts: two keys with several values, keys written as escapes, a
\* nested object, whitespace around the tokens, and a member with no value.
Members ==
    { Quoted(Tok("k")) \o Tok(":") \o Tok("true"),
      Quoted(Tok("k")) \o Tok(":") \o Tok("false"),
      Quoted(Tok("j")) \o Tok(":") \o Tok("1"),
      Quoted(Escape("d", "8", "0", "0")) \o Tok(":") \o Tok("null"),
      Quoted(Escape("d", "c", "0", "0")) \o Tok(":") \o Tok("2"),
      Tok(" ") \o Quoted(Tok("j")) \o Tok(" ") \o Tok(":") \o Tok("[") \o Tok("]") \o Tok(" "),
      Quoted(Tok("k")) \o Tok(":") \o Tok("{") \o Quoted(Tok("k")) \o Tok(":")
          \o Tok("1") \o Tok(",") \o Quoted(Tok("k")) \o Tok(":") \o Tok("2") \o Tok("}"),
      Quoted(Tok("k")) }

\* The members ms joined by ",".
RECURSIVE Join(_)
Join(ms) ==
    IF ms = <<>> THEN <<>>
    ELSE IF Len(ms) = 1 THEN ms[1]
    ELSE ms[1] \o Tok(",") \o Join(Tail(ms))

\* No member text holds an exponent: the order of the signs is never read.
MapOrders == {o \in Orders : o.signs = <<"+", "-">>}

InitMap ==
    /\ \E ms \in SeqsUpTo(Members, MaxMembers), closed \in BOOLEAN :
          input = Tok("{") \o Join(ms) \o (IF closed THEN Tok("}") ELSE <<>>)
    /\ codes = <<>>
    /\ cur = 0
    /\ arg = <<>>
    /\ op = "none"
    /\ res = NoRes

ParseMapStep ==
    /\ op = "none"
    /\ \E ord \in MapOrders :
          /\ arg' = ord
          /\ res' = ParseMap(input, 0, ord)
    /\ op' = "ParseMap"
    /\ UNCHANGED <<input, codes, cur>>

\* The key-value sequence ParseMap folds: ParseArrayLike with ParseKeyValue.
ParseItemsStep ==
    /\ op = "none"
    /\ \E ord \in MapOrders :
          /\ arg' = ord
          /\ res' = ParseArrayLike(input, 0, "ParseMap", ord)
    /\ op' = "ParseArrayLike"
    /\ UNCHANGED <<input, codes, cur>>

NextMap == ParseMapStep \/ ParseItemsStep

SpecMap == InitMap /\ [][NextMap]_vars

Max(S) == CHOOSE x \in S : \A y \in S : x >= y

----------------------------------------------------------------------------
(* ParseRunes on texts made of lexical chunks                               *)

\* Brackets, separators, whitespace, a key with its colon, and scalars.
ParseChunks ==
    { Tok("["), Tok("]"), Tok("{"), Tok("}"), Tok(","), Tok(" "),
      Quoted(Tok("k")) \o Tok(":"), Tok("1"), Tok("true"), <<10>> }

InitParse ==
    /\ input \in ConcatsUpTo(ParseChunks, MaxToks)
    /\ codes = <<>>
    /\ cur = 0
    /\ arg = <<>>
    /\ op = "none"
    /\ res = NoRes

ParseRunesStep ==
    /\ op = "none"
    /\ \E ord \in Orders :
          /\ arg' = ord
          /\ res' = ParseRunes(input, ord)
    /\ op' = "ParseRunes"
    /\ UNCHANGED <<input, codes, cur>>

\* The call ParseRunes makes: ParseAny(input, 0).
ParseAnyStep ==
    /\ op = "none"
    /\ \E ord \in Orders :
          /\ arg' = ord
          /\ res' = ParseAny(input, 0, ord)
    /\ op' = "ParseAny"
    /\ UNCHANGED <<input, codes, cur>>

NextParse == ParseRunesStep \/ ParseAnyStep

SpecParse == InitParse /\ [][NextParse]_vars

\* The positions from next on that hold a code point other than whitespace.
Remaining(in, next) == {i \in next..(Len(in) - 1) : At(in, i) \notin Whitespace}

\* C1: ParseRunes succeeds iff ParseAny(input, 0) succeeds and only whitespace
\* follows the position it returns; when ParseAny succeeds and something else
\* follows, ParseRunes fails with "not terminated" at the first code point
\* that is not whitespace.
C1_NotTerminated ==
    op = "ParseRunes" =>
        LET any == ParseAny(input, 0, arg)
        IN  /\ res.ok <=> any.ok /\ Remaining(input, any.next) = {}
            /\ res.ok => res.value = any.value
            /\ any.ok /\ Remaining(input, any.next) # {} =>
                  res.err = Err(Min(Remaining(input, any.next)), "not terminated", <<>>)

\* "1 ]": the value ends at 1, a space follows, and the bracket at 2 is left.
C1_Witness ==
    /\ op = "ParseRunes"
    /\ input = <<49, 32, 93>>
    /\ ~res.ok
    /\ res.err = Err(2, "not terminated", <<>>)

----------------------------------------------------------------------------
(* Every production at every position                                       *)

Productions ==
    {"ParseAny", "ParseArray", "ParseMap", "ParseKeyValue", "ParseString",
     "ParseNum", "ParseBoolNull"}

\* Parts of texts: opened and closed arrays and objects with items, a string
\* with an escape, the pieces of a number, separators and whitespace.
Parts ==
    { Tok("["), Tok("]"), Tok(","), Tok(" "), <<34>>, Tok("null"),
      Tok("[") \o Tok("1") \o Tok(","),
      Tok("[") \o Tok("[") \o Tok("]") \o Tok(","),
      Tok("true") \o Tok("]"),
      Tok("{") \o Quoted(Tok("k")) \o Tok(":"),
      Tok("1") \o Tok("}"),
      <<34>> \o Tok("a") \o <<92>> \o Tok("n"),
      Tok("-") \o Tok("1") \o Tok(".") \o Tok("5") \o Tok("e"),
      Tok("+") \o Tok("1") }

InitProgress ==
    /\ input \in ConcatsUpTo(Parts, MaxParts)
    /\ codes = <<>>
    /\ cur = 0
    /\ arg = <<>>
    /\ op = "none"
    /\ res = NoRes

\* One production called at one position, under one iteration order.
ProductionStep ==
    /\ op = "none"
    /\ \E p \in Productions, c \in 0..Len(input), ord \in Orders :
          /\ op' = p
          /\ cur' = c
          /\ res' = Apply(p, input, c, ord)
    /\ UNCHANGED <<input, codes, arg>>

\* Parse on the text as a string of ASCII bytes.
ParseStep ==
    /\ op = "none"
    /\ \E ord \in Orders : res' = Parse(input, ord)
    /\ op' = "Parse"
    /\ UNCHANGED <<input, codes, cur, arg>>

NextProgress == ProductionStep \/ ParseStep

SpecProgress == InitProgress /\ [][NextProgress]_vars

\* C10: a production that succeeds returns a position after its start and
\* within the input; every production called during a parse starts no earlier
\* than its caller; every iteration of the loops of ParseArrayLike and
\* ParseString moves the cursor forward; Parse ends with a value or an error.
C10_Progress ==
    op # "none" =>
        /\ op \in Productions /\ res.ok => cur < res.next /\ res.next <= Len(input)
        /\ \A call \in res.calls : call[4] >= call[2]
        /\ \A it \in res.iters : it[3] > it[2]
        /\ op = "Parse" => res.ok \/ res.err.msg # ""

\* ParseArray on "[1,true]" from 0: the items are parsed from 1 and from 3,
\* the loop runs from 1 to 3 and from 3 to 8, and 8 is returned.
C10_Witness ==
    /\ op = "ParseArray"
    /\ cur = 0
    /\ input = <<91, 49, 44>> \o Tok("true") \o <<93>>
    /\ res.ok
    /\ res.next = 8
    /\ <<"ParseArray", 0, "ParseAny", 3>> \in res.calls
    /\ <<"ParseAny", 3, "ParseBoolNull", 3>> \in res.calls
    /\ res.iters = {<<"ParseArrayLike", 1, 3>>, <<"ParseArrayLike", 3, 8>>}

----------------------------------------------------------------------------
(* The productions that range over a Go map, under every iteration order    *)

\* The literals, the start of one, whitespace, and the pieces of an exponent.
OrderChunks ==
    { Tok("true"), Tok("false"), Tok("null"), Tok("n"), Tok(" "),
      Tok("1") \o Tok("e"), Tok("+"), Tok("-"), Tok("1") }

InitOrder ==
    /\ input \in ConcatsUpTo(OrderChunks, MaxToks)
    /\ codes = <<>>
    /\ cur = 0
    /\ arg = <<>>
    /\ op = "none"
    /\ res = NoRes

\* The range of ParseBoolNull visits the literals in an order Go picks.
ParseBoolNullStep ==
    /\ op = "none"
    /\ \E c \in 0..Len(input), ord \in Orders :
          /\ cur' = c
          /\ res' = ParseBoolNull(input, c, ord)
    /\ op' = "ParseBoolNull"
    /\ UNCHANGED <<input, codes, arg>>

\* The range of ParseNum visits the signs in an order Go picks.
OrderNumStep ==
    /\ op = "none"
    /\ \E c \in 0..Len(input), ord \in Orders :
          /\ cur' = c
          /\ res' = ParseNum(input, c, ord)
    /\ op' = "ParseNum"
    /\ UNCHANGED <<input, codes, arg>>

\* Parse on the text as a string of ASCII bytes.
OrderParseStep ==
    /\ op = "none"
    /\ \E ord \in Orders : res' = Parse(input, ord)
    /\ op' = "Parse"
    /\ UNCHANGED <<input, codes, cur, arg>>

NextOrder == ParseBoolNullStep \/ OrderNumStep \/ OrderParseStep

SpecOrder == InitOrder /\ [][NextOrder]_vars

\* What a caller sees of a result.
Outcome(r) == [ok |-> r.ok, value |-> r.value, next |-> r.next, err |-> r.err]

\* The operation of the state run again under the order o.
Rerun(o) ==
    CASE op = "ParseBoolNull" -> ParseBoolNull(input, cur, o)
      [] op = "ParseNum" -> ParseNum(input, cur, o)
      [] op = "Parse" -> Parse(input, o)

\* C9: the outcome of ParseBoolNull, of ParseNum and of Parse (value, next
\* position, error position and message) is the same under every iteration
\* order of the literals and of the signs.
C9_OrderIndependent ==
    op # "none" => \A o \in Orders : Outcome(Rerun(o)) = Outcome(res)

\* ParseBoolNull on " n1": every literal fails, at another offset each, and
\* the error is at 1 whichever literal was tried last.
C9_Witness ==
    /\ op = "ParseBoolNull"
    /\ cur = 0
    /\ input = <<32, 110, 49>>
    /\ ~res.ok
    /\ res.next = 1
    /\ res.err = Err(1, "expect true|false|null", <<>>)

=============================================================================
